---- MODULE Spec2Model ----
(***************************************************************************)
(* Model of the Autonomy backend's policy validation engine:               *)
(*   PolicyEnforcer (validateTransaction, the spend cache),                *)
(*   AIAgent.executeTask (validate, record, pay),                          *)
(*   AgentOrchestrator (start / pause / resume / kill switch),             *)
(*   the /simulate route.                                                  *)
(* Amounts are integers (currency units), time is Date.now() in ms, with   *)
(* 0 standing for a local midnight.  A service name is a sequence of       *)
(* one-character strings so that toLowerCase and includes are computed.    *)
(***************************************************************************)
EXTENDS Integers, Sequences, FiniteSets, TLC

\* ------------------------------------------------------------------ bounds
MaxTx == 2
MaxElapsed == 5000
MaxDay == 1

\* --------------------------------------------------------------- constants
SPENDING_CACHE_TTL == 5000
DayMs == 86400000

\* ------------------------------------------------------------ input sets
TickSteps == {2500}
AgentIds == {"a1", "a2", "zz"}
Procs == {"p1", "p2"}
OpSlots == {"o1"}
OverlapSlots == {"o1", "o2"}
Enforcers == {"cached", "eager"}

SvcAi == <<"a", "i">>
SvcAiUpper == <<"A", "I">>
SvcX == <<"x">>
Services == {SvcAi, SvcAiUpper, SvcX}
Amounts == {0, 1, 2}

NullPolicy == [present |-> FALSE, dailyLimit |-> 0, perTxLimit |-> 0, whitelist |-> <<>>]
PolicyOpenAi == [present |-> TRUE, dailyLimit |-> 1, perTxLimit |-> 1, whitelist |-> <<SvcAi>>]
PolicyOpen == [present |-> TRUE, dailyLimit |-> 2, perTxLimit |-> 1, whitelist |-> <<>>]
Policies == {PolicyOpenAi, PolicyOpen}

\* ------------------------------------------------------------------ state
VARIABLES
    enforcer,       \* which PolicyEnforcer module the build links
    agentTable,     \* prisma.agent rows (status, policy)
    txs,            \* prisma.transaction rows, in creation order
    spendingCache,  \* module-level Map<string, SpendingCache>
    agents,         \* AgentOrchestrator.agents (keys of the running map)
    now,            \* Date.now()
    procs,          \* in-flight executeTask / simulate calls
    ops,            \* in-flight orchestrator operations
    payments,       \* walletManager.sendPayment calls made so far
    dropped         \* history: the entry an invalidation removed, kept
                    \* until the agent's daily spend is read again

vars == <<enforcer, agentTable, txs, spendingCache, agents, now, procs, ops,
          payments, dropped>>

\* ------------------------------------------------------------ data shapes
NoRow == [exists |-> FALSE, status |-> "none", policy |-> NullPolicy]
NoEntry == [present |-> FALSE, amount |-> 0, timestamp |-> 0]
AllFalse == [agentStatusCheck |-> FALSE, whitelistCheck |-> FALSE,
             perTxLimitCheck |-> FALSE, dailyLimitCheck |-> FALSE]
NoResult == [approved |-> FALSE, reason |-> <<>>, policyChecks |-> AllFalse]
NoRequest == [agentId |-> "none", service |-> <<>>, amount |-> 0]
IdleProc == [pc |-> "idle", caller |-> "none", request |-> NoRequest,
             agent |-> NoRow, today |-> 0, cacheHit |-> FALSE,
             spentToday |-> 0, validation |-> NoResult, txId |-> 0,
             invalidated |-> FALSE]
IdleOp == [kind |-> "none", agentId |-> "none", pc |-> "idle"]

\* ------------------------------------------------------------------- time
StartOfDay(t) == t - (t % DayMs)
DayOf(t) == t \div DayMs

\* -------------------------------------------------- PolicyEnforcer (cached)
ToLowerChar(c) ==
    CASE c = "A" -> "a"
      [] c = "I" -> "i"
      [] c = "X" -> "x"
      [] OTHER -> c

toLowerCase(s) == [i \in 1..Len(s) |-> ToLowerChar(s[i])]

includes(s, t) ==
    \E i \in 1..(Len(s) - Len(t) + 1) : SubSeq(s, i, i + Len(t) - 1) = t

checkWhitelist(service, whitelist) ==
    IF Len(whitelist) = 0 THEN TRUE
    ELSE LET serviceLower == toLowerCase(service) IN
         \E k \in 1..Len(whitelist) :
            LET allowedLower == toLowerCase(whitelist[k]) IN
            \/ serviceLower = allowedLower
            \/ includes(serviceLower, allowedLower)
            \/ includes(allowedLower, serviceLower)

createFailedResult(reason) ==
    [approved |-> FALSE, reason |-> reason, policyChecks |-> AllFalse]

Flags(s, w, p, d) ==
    [agentStatusCheck |-> s, whitelistCheck |-> w,
     perTxLimitCheck |-> p, dailyLimitCheck |-> d]

\* FastChecks with a strict per-transaction comparison
FastChecks_PerTxStrict(agent, request) ==
    IF ~agent.exists
    THEN [done |-> TRUE, result |-> createFailedResult(<<"Agent not found">>)]
    ELSE IF ~agent.policy.present
    THEN [done |-> TRUE,
          result |-> createFailedResult(<<"No policy configured for agent">>)]
    ELSE IF agent.status # "active"
    THEN [done |-> TRUE,
          result |-> [approved |-> FALSE,
                      reason |-> <<"Agent is ", agent.status>>,
                      policyChecks |-> Flags(FALSE, FALSE, FALSE, FALSE)]]
    ELSE IF ~checkWhitelist(request.service, agent.policy.whitelist)
    THEN [done |-> TRUE,
          result |-> [approved |-> FALSE,
                      reason |-> <<"Service \"", request.service, "\" is not whitelisted">>,
                      policyChecks |-> Flags(TRUE, FALSE, FALSE, FALSE)]]
    ELSE IF ~(request.amount < agent.policy.perTxLimit)
    THEN [done |-> TRUE,
          result |-> [approved |-> FALSE,
                      reason |-> <<"Amount $", request.amount,
                                   " exceeds per-transaction limit of $",
                                   agent.policy.perTxLimit>>,
                      policyChecks |-> Flags(TRUE, TRUE, FALSE, FALSE)]]
    ELSE [done |-> FALSE, result |-> NoResult]

\* FastChecks with the per-transaction limit tested before the whitelist
FastChecks_LimitBeforeWhitelist(agent, request) ==
    IF ~agent.exists
    THEN [done |-> TRUE, result |-> createFailedResult(<<"Agent not found">>)]
    ELSE IF ~agent.policy.present
    THEN [done |-> TRUE,
          result |-> createFailedResult(<<"No policy configured for agent">>)]
    ELSE IF agent.status # "active"
    THEN [done |-> TRUE,
          result |-> [approved |-> FALSE,
                      reason |-> <<"Agent is ", agent.status>>,
                      policyChecks |-> Flags(FALSE, FALSE, FALSE, FALSE)]]
    ELSE IF ~(request.amount <= agent.policy.perTxLimit)
    THEN [done |-> TRUE,
          result |-> [approved |-> FALSE,
                      reason |-> <<"Amount $", request.amount,
                                   " exceeds per-transaction limit of $",
                                   agent.policy.perTxLimit>>,
                      policyChecks |-> Flags(TRUE, TRUE, FALSE, FALSE)]]
    ELSE IF ~checkWhitelist(request.service, agent.policy.whitelist)
    THEN [done |-> TRUE,
          result |-> [approved |-> FALSE,
                      reason |-> <<"Service \"", request.service, "\" is not whitelisted">>,
                      policyChecks |-> Flags(TRUE, FALSE, FALSE, FALSE)]]
    ELSE [done |-> FALSE, result |-> NoResult]

\* FastChecks that lets a frozen agent through (only paused is tested)
FastChecks_FrozenNotChecked(agent, request) ==
    IF ~agent.exists
    THEN [done |-> TRUE, result |-> createFailedResult(<<"Agent not found">>)]
    ELSE IF ~agent.policy.present
    THEN [done |-> TRUE,
          result |-> createFailedResult(<<"No policy configured for agent">>)]
    ELSE IF agent.status = "paused"
    THEN [done |-> TRUE,
          result |-> [approved |-> FALSE,
                      reason |-> <<"Agent is ", agent.status>>,
                      policyChecks |-> Flags(FALSE, FALSE, FALSE, FALSE)]]
    ELSE IF ~checkWhitelist(request.service, agent.policy.whitelist)
    THEN [done |-> TRUE,
          result |-> [approved |-> FALSE,
                      reason |-> <<"Service \"", request.service, "\" is not whitelisted">>,
                      policyChecks |-> Flags(TRUE, FALSE, FALSE, FALSE)]]
    ELSE IF ~(request.amount <= agent.policy.perTxLimit)
    THEN [done |-> TRUE,
          result |-> [approved |-> FALSE,
                      reason |-> <<"Amount $", request.amount,
                                   " exceeds per-transaction limit of $",
                                   agent.policy.perTxLimit>>,
                      policyChecks |-> Flags(TRUE, TRUE, FALSE, FALSE)]]
    ELSE [done |-> FALSE, result |-> NoResult]

\* FastChecks that treats a missing policy as no restrictions
FastChecks_MissingPolicyAllowsAll(agent, request) ==
    IF ~agent.exists
    THEN [done |-> TRUE, result |-> createFailedResult(<<"Agent not found">>)]
    ELSE IF ~agent.policy.present
    THEN [done |-> TRUE,
          result |-> [approved |-> agent.status = "active",
                      reason |-> IF agent.status = "active"
                                 THEN <<"All policy checks passed">>
                                 ELSE <<"Agent is ", agent.status>>,
                      policyChecks |-> Flags(agent.status = "active",
                          agent.status = "active", agent.status = "active",
                          agent.status = "active")]]
    ELSE IF agent.status # "active"
    THEN [done |-> TRUE,
          result |-> [approved |-> FALSE,
                      reason |-> <<"Agent is ", agent.status>>,
                      policyChecks |-> Flags(FALSE, FALSE, FALSE, FALSE)]]
    ELSE IF ~checkWhitelist(request.service, agent.policy.whitelist)
    THEN [done |-> TRUE,
          result |-> [approved |-> FALSE,
                      reason |-> <<"Service \"", request.service, "\" is not whitelisted">>,
                      policyChecks |-> Flags(TRUE, FALSE, FALSE, FALSE)]]
    ELSE IF ~(request.amount <= agent.policy.perTxLimit)
    THEN [done |-> TRUE,
          result |-> [approved |-> FALSE,
                      reason |-> <<"Amount $", request.amount,
                                   " exceeds per-transaction limit of $",
                                   agent.policy.perTxLimit>>,
                      policyChecks |-> Flags(TRUE, TRUE, FALSE, FALSE)]]
    ELSE [done |-> FALSE, result |-> NoResult]

\* validateTransaction up to and including the per-transaction check:
\* done = TRUE when the call returns before the daily limit check
FastChecks(agent, request) ==
    IF ~agent.exists
    THEN [done |-> TRUE, result |-> createFailedResult(<<"Agent not found">>)]
    ELSE IF ~agent.policy.present
    THEN [done |-> TRUE,
          result |-> createFailedResult(<<"No policy configured for agent">>)]
    ELSE IF agent.status # "active"
    THEN [done |-> TRUE,
          result |-> [approved |-> FALSE,
                      reason |-> <<"Agent is ", agent.status>>,
                      policyChecks |-> Flags(FALSE, FALSE, FALSE, FALSE)]]
    ELSE IF ~checkWhitelist(request.service, agent.policy.whitelist)
    THEN [done |-> TRUE,
          result |-> [approved |-> FALSE,
                      reason |-> <<"Service \"", request.service, "\" is not whitelisted">>,
                      policyChecks |-> Flags(TRUE, FALSE, FALSE, FALSE)]]
    ELSE IF ~(request.amount <= agent.policy.perTxLimit)
    THEN [done |-> TRUE,
          result |-> [approved |-> FALSE,
                      reason |-> <<"Amount $", request.amount,
                                   " exceeds per-transaction limit of $",
                                   agent.policy.perTxLimit>>,
                      policyChecks |-> Flags(TRUE, TRUE, FALSE, FALSE)]]
    ELSE [done |-> FALSE, result |-> NoResult]

\* DailyResult whose blocked branch leaves dailyLimitCheck true
DailyResult_FlagLeftTrue(agent, dailyLimitCheck) ==
    IF ~dailyLimitCheck
    THEN [approved |-> FALSE,
          reason |-> <<"Transaction would exceed daily limit of $",
                       agent.policy.dailyLimit>>,
          policyChecks |-> Flags(TRUE, TRUE, TRUE, TRUE)]
    ELSE [approved |-> TRUE,
          reason |-> <<"All policy checks passed">>,
          policyChecks |-> Flags(TRUE, TRUE, TRUE, TRUE)]

\* validateTransaction after checkDailyLimitCached has answered
DailyResult(agent, dailyLimitCheck) ==
    IF ~dailyLimitCheck
    THEN [approved |-> FALSE,
          reason |-> <<"Transaction would exceed daily limit of $",
                       agent.policy.dailyLimit>>,
          policyChecks |-> Flags(TRUE, TRUE, TRUE, FALSE)]
    ELSE [approved |-> TRUE,
          reason |-> <<"All policy checks passed">>,
          policyChecks |-> Flags(TRUE, TRUE, TRUE, TRUE)]

\* CacheValid with an entry aged exactly TTL still taken as valid
CacheValid_Inclusive(cached, t) ==
    cached.present /\ t - cached.timestamp <= SPENDING_CACHE_TTL

CacheValid(cached, t) ==
    cached.present /\ t - cached.timestamp < SPENDING_CACHE_TTL

\* the comparison made strict
WithinDaily_Strict(spent, amount, dailyLimit) == (spent + amount) < dailyLimit

WithinDaily(spent, amount, dailyLimit) == (spent + amount) <= dailyLimit

RECURSIVE SumApproved(_, _, _, _)
SumApproved(rows, agentId, today, n) ==
    IF n = 0 THEN 0
    ELSE SumApproved(rows, agentId, today, n - 1) +
         (IF /\ rows[n].agentId = agentId
             /\ rows[n].status = "approved"
             /\ rows[n].createdAt >= today
          THEN rows[n].amount ELSE 0)

\* the aggregation query without the agentId condition of its where clause
getDailySpending_AnyAgent(rows, agentId, today) ==
    SumApproved([i \in 1..Len(rows) |-> [rows[i] EXCEPT !.agentId = agentId]],
                agentId, today, Len(rows))

\* the aggregation query without the status condition of its where clause
getDailySpending_AnyStatus(rows, agentId, today) ==
    SumApproved([i \in 1..Len(rows) |-> [rows[i] EXCEPT !.status = "approved"]],
                agentId, today, Len(rows))

\* prisma.transaction.aggregate as issued by getDailySpending
getDailySpending(rows, agentId, today) == SumApproved(rows, agentId, today, Len(rows))

\* ------------------------------------------------------------------- SDK
\* AutonomySDK.isServiceAllowed on the whitelist returned by getPolicy
isServiceAllowed(service, whitelist) ==
    \E k \in 1..Len(whitelist) : includes(service, whitelist[k])

\* --------------------------------------------------- PolicyEnforcer (eager)
checkWhitelistEager(service, whitelist) ==
    IF Len(whitelist) = 0 THEN TRUE
    ELSE \E k \in 1..Len(whitelist) :
            \/ service = whitelist[k]
            \/ includes(service, whitelist[k])
            \/ includes(whitelist[k], service)

EagerEarly(agent) ==
    IF ~agent.exists
    THEN [done |-> TRUE, result |-> createFailedResult(<<"Agent not found">>)]
    ELSE IF ~agent.policy.present
    THEN [done |-> TRUE,
          result |-> createFailedResult(<<"No policy configured for agent">>)]
    ELSE [done |-> FALSE, result |-> NoResult]

EagerResult(agent, request, dailyLimitCheck) ==
    LET policyChecks ==
            Flags(agent.status = "active",
                  checkWhitelistEager(request.service, agent.policy.whitelist),
                  request.amount <= agent.policy.perTxLimit,
                  dailyLimitCheck)
    IN  IF ~policyChecks.agentStatusCheck
        THEN [approved |-> FALSE, reason |-> <<"Agent is ", agent.status>>,
              policyChecks |-> policyChecks]
        ELSE IF ~policyChecks.whitelistCheck
        THEN [approved |-> FALSE,
              reason |-> <<"Service \"", request.service, "\" is not whitelisted">>,
              policyChecks |-> policyChecks]
        ELSE IF ~policyChecks.perTxLimitCheck
        THEN [approved |-> FALSE,
              reason |-> <<"Amount $", request.amount,
                           " exceeds per-transaction limit of $",
                           agent.policy.perTxLimit>>,
              policyChecks |-> policyChecks]
        ELSE IF ~policyChecks.dailyLimitCheck
        THEN [approved |-> FALSE,
              reason |-> <<"Transaction would exceed daily limit of $",
                           agent.policy.dailyLimit>>,
              policyChecks |-> policyChecks]
        ELSE [approved |-> TRUE, reason |-> <<"All policy checks passed">>,
              policyChecks |-> policyChecks]

\* ------------------------------------------------------------------- Init
Init ==
    /\ enforcer \in Enforcers
    /\ \E pol1 \in Policies, pol2 \in {NullPolicy} :
        agentTable = [a \in AgentIds |->
            CASE a = "a1" -> [exists |-> TRUE, status |-> "active", policy |-> pol1]
              [] a = "a2" -> [exists |-> TRUE, status |-> "active", policy |-> pol2]
              [] OTHER -> NoRow]
    /\ txs = <<>>
    /\ spendingCache = [a \in AgentIds |-> NoEntry]
    /\ agents = {}
    /\ now = 0
    /\ procs = [p \in Procs |-> IdleProc]
    /\ ops = [o \in OpSlots |-> IdleOp]
    /\ payments = {}
    /\ dropped = [a \in AgentIds |-> NoEntry]

\* ------------------------------------------------------------------ clock
Tick(d) ==
    /\ (now + d) % DayMs <= MaxElapsed
    /\ DayOf(now + d) <= MaxDay
    /\ now' = now + d
    /\ UNCHANGED <<enforcer, agentTable, txs, spendingCache, agents, procs, ops, payments, dropped>>

\* the clock runs on, with nothing happening, to shortly before midnight
SkipToEvening(d) ==
    /\ now % DayMs <= MaxElapsed
    /\ DayOf(now) < MaxDay
    /\ now' = StartOfDay(now) + DayMs - d
    /\ UNCHANGED <<enforcer, agentTable, txs, spendingCache, agents, procs, ops, payments, dropped>>

\* ------------------------------------------------- callers of the validator
\* executeTask calls that have not written their transaction row yet
PendingRecords ==
    {p \in Procs : procs[p].caller = "task" /\
                   procs[p].pc \in {"findAgent", "aggregate", "cacheSet", "validated"}}

\* POST /:id/execute, then AIAgent.executeTask up to its first await
ExecuteTask(p, a, svc, amt) ==
    /\ procs[p].pc = "idle"
    /\ a \in agents
    /\ IF amt > 0
       THEN /\ Len(txs) + Cardinality(PendingRecords) < MaxTx
            /\ procs' = [procs EXCEPT ![p] =
                  [IdleProc EXCEPT !.pc = "findAgent", !.caller = "task",
                      !.request = [agentId |-> a, service |-> svc, amount |-> amt]]]
       ELSE procs' = [procs EXCEPT ![p] =
                  [IdleProc EXCEPT !.pc = "aiTask", !.caller = "task",
                      !.request = [agentId |-> a, service |-> svc, amount |-> amt]]]
    /\ UNCHANGED <<enforcer, agentTable, txs, spendingCache, agents, now, ops, payments, dropped>>

\* POST /api/transactions/simulate up to the validator's first await
Simulate(p, a, svc, amt) ==
    /\ procs[p].pc = "idle"
    /\ procs' = [procs EXCEPT ![p] =
          [IdleProc EXCEPT !.pc = "findAgent", !.caller = "simulate",
              !.request = [agentId |-> a, service |-> svc, amount |-> amt]]]
    /\ UNCHANGED <<enforcer, agentTable, txs, spendingCache, agents, now, ops, payments, dropped>>

\* validateTransaction from the answer of prisma.agent.findUnique to its
\* return or to the aggregation query
FindAgent(p) ==
    /\ procs[p].pc = "findAgent"
    /\ LET req == procs[p].request
           agent == agentTable[req.agentId]
           cached == spendingCache[req.agentId]
           early == IF enforcer = "cached" THEN FastChecks(agent, req)
                                           ELSE EagerEarly(agent)
       IN  /\ procs' = [procs EXCEPT ![p] =
             IF early.done
             THEN [@ EXCEPT !.pc = "validated", !.agent = agent,
                            !.validation = early.result]
             ELSE IF enforcer = "cached" /\ CacheValid(cached, now)
             THEN [@ EXCEPT !.pc = "validated", !.agent = agent,
                            !.cacheHit = TRUE, !.spentToday = cached.amount,
                            !.validation = DailyResult(agent,
                                WithinDaily(cached.amount, req.amount,
                                            agent.policy.dailyLimit))]
             ELSE [@ EXCEPT !.pc = "aggregate", !.agent = agent,
                            !.today = StartOfDay(now)]]
           /\ dropped' = IF ~early.done /\ enforcer = "cached" /\ CacheValid(cached, now)
                         THEN [dropped EXCEPT ![req.agentId] = NoEntry]
                         ELSE dropped
    /\ UNCHANGED <<enforcer, agentTable, txs, spendingCache, agents, now, ops, payments>>

\* the aggregation query issued under a per-agent lock held from the read to
\* the write of the transaction row
Aggregate_UnderAgentLock(p) ==
    /\ procs[p].pc = "aggregate"
    /\ \A q \in Procs \ {p} :
          procs[q].request.agentId = procs[p].request.agentId
              => procs[q].pc \notin {"cacheSet", "validated"}
    /\ LET req == procs[p].request
           spent == getDailySpending(txs, req.agentId, procs[p].today)
       IN  procs' = [procs EXCEPT ![p] =
             IF enforcer = "cached"
             THEN [@ EXCEPT !.pc = "cacheSet", !.spentToday = spent]
             ELSE [@ EXCEPT !.pc = "validated", !.spentToday = spent,
                            !.validation = EagerResult(procs[p].agent, req,
                                WithinDaily(spent, req.amount,
                                            procs[p].agent.policy.dailyLimit))]]
    /\ UNCHANGED <<enforcer, agentTable, txs, spendingCache, agents, now, ops, payments, dropped>>

\* the database answers prisma.transaction.aggregate
Aggregate(p) ==
    /\ procs[p].pc = "aggregate"
    /\ LET req == procs[p].request
           spent == getDailySpending(txs, req.agentId, procs[p].today)
       IN  procs' = [procs EXCEPT ![p] =
             IF enforcer = "cached"
             THEN [@ EXCEPT !.pc = "cacheSet", !.spentToday = spent]
             ELSE [@ EXCEPT !.pc = "validated", !.spentToday = spent,
                            !.validation = EagerResult(procs[p].agent, req,
                                WithinDaily(spent, req.amount,
                                            procs[p].agent.policy.dailyLimit))]]
    /\ UNCHANGED <<enforcer, agentTable, txs, spendingCache, agents, now, ops, payments, dropped>>

\* the cache update stored under every key instead of the calling agent's
CacheSet_EveryKey(p) ==
    /\ procs[p].pc = "cacheSet"
    /\ LET req == procs[p].request IN
        /\ spendingCache' = [a \in AgentIds |->
              [present |-> TRUE, amount |-> procs[p].spentToday, timestamp |-> now]]
        /\ procs' = [procs EXCEPT ![p] =
              [@ EXCEPT !.pc = "validated",
                        !.validation = DailyResult(procs[p].agent,
                            WithinDaily(procs[p].spentToday, req.amount,
                                        procs[p].agent.policy.dailyLimit))]]
        /\ dropped' = [dropped EXCEPT ![req.agentId] = NoEntry]
    /\ UNCHANGED <<enforcer, agentTable, txs, agents, now, ops, payments>>

\* checkDailyLimitCached resumes: cache update, then the daily limit verdict
CacheSet(p) ==
    /\ procs[p].pc = "cacheSet"
    /\ LET req == procs[p].request IN
        /\ spendingCache' = [spendingCache EXCEPT ![req.agentId] =
              [present |-> TRUE, amount |-> procs[p].spentToday, timestamp |-> now]]
        /\ procs' = [procs EXCEPT ![p] =
              [@ EXCEPT !.pc = "validated",
                        !.validation = DailyResult(procs[p].agent,
                            WithinDaily(procs[p].spentToday, req.amount,
                                        procs[p].agent.policy.dailyLimit))]]
        /\ dropped' = [dropped EXCEPT ![req.agentId] = NoEntry]
    /\ UNCHANGED <<enforcer, agentTable, txs, agents, now, ops, payments>>

\* the route answers with the validation
Respond(p) ==
    /\ procs[p].pc = "validated"
    /\ procs[p].caller = "simulate"
    /\ procs' = [procs EXCEPT ![p] = IdleProc]
    /\ UNCHANGED <<enforcer, agentTable, txs, spendingCache, agents, now, ops, payments, dropped>>

\* an executeTask without the return for a blocked request
RecordTransaction_NoReturnWhenBlocked(p) ==
    /\ procs[p].pc = "validated"
    /\ procs[p].caller = "task"
    /\ LET req == procs[p].request
           validation == procs[p].validation
       IN  /\ txs' = Append(txs,
                 [agentId |-> req.agentId, service |-> req.service,
                  amount |-> req.amount,
                  status |-> IF validation.approved THEN "approved" ELSE "blocked",
                  reason |-> validation.reason,
                  createdAt |-> now, txHash |-> FALSE])
           /\ procs' = [procs EXCEPT ![p] =
                 [@ EXCEPT !.pc = "pay", !.txId = Len(txs) + 1]]
    /\ UNCHANGED <<enforcer, agentTable, spendingCache, agents, now, ops, payments, dropped>>

\* an executeTask that writes a row for approved requests only
RecordTransaction_ApprovedOnly(p) ==
    /\ procs[p].pc = "validated"
    /\ procs[p].caller = "task"
    /\ LET req == procs[p].request
           validation == procs[p].validation
       IN  /\ txs' = IF validation.approved
                     THEN Append(txs,
                            [agentId |-> req.agentId, service |-> req.service,
                             amount |-> req.amount, status |-> "approved",
                             reason |-> validation.reason,
                             createdAt |-> now, txHash |-> FALSE])
                     ELSE txs
           /\ procs' = [procs EXCEPT ![p] =
                 IF validation.approved
                 THEN [@ EXCEPT !.pc = "pay", !.txId = Len(txs) + 1]
                 ELSE IdleProc]
    /\ UNCHANGED <<enforcer, agentTable, spendingCache, agents, now, ops, payments, dropped>>

\* executeTask: prisma.transaction.create, emit, return when blocked
RecordTransaction(p) ==
    /\ procs[p].pc = "validated"
    /\ procs[p].caller = "task"
    /\ LET req == procs[p].request
           validation == procs[p].validation
       IN  /\ txs' = Append(txs,
                 [agentId |-> req.agentId, service |-> req.service,
                  amount |-> req.amount,
                  status |-> IF validation.approved THEN "approved" ELSE "blocked",
                  reason |-> validation.reason,
                  createdAt |-> now, txHash |-> FALSE])
           /\ procs' = [procs EXCEPT ![p] =
                 IF validation.approved
                 THEN [@ EXCEPT !.pc = "pay", !.txId = Len(txs) + 1]
                 ELSE IdleProc]
    /\ UNCHANGED <<enforcer, agentTable, spendingCache, agents, now, ops, payments, dropped>>

\* executeTask whose catch block marks the record failed when sendPayment throws
SendPayment_MarksFailed(p, ok) ==
    /\ procs[p].pc = "pay"
    /\ payments' = payments \cup {procs[p].txId}
    /\ txs' = IF ok THEN txs ELSE [txs EXCEPT ![procs[p].txId].status = "failed"]
    /\ procs' = [procs EXCEPT ![p] =
          IF ok THEN [@ EXCEPT !.pc = "updateHash"] ELSE IdleProc]
    /\ UNCHANGED <<enforcer, agentTable, spendingCache, agents, now, ops, dropped>>

\* executeTask: walletManager.sendPayment returns a hash or throws
SendPayment(p, ok) ==
    /\ procs[p].pc = "pay"
    /\ payments' = payments \cup {procs[p].txId}
    /\ procs' = [procs EXCEPT ![p] =
          IF ok THEN [@ EXCEPT !.pc = "updateHash"] ELSE IdleProc]
    /\ UNCHANGED <<enforcer, agentTable, txs, spendingCache, agents, now, ops, dropped>>

\* executeTask: prisma.transaction.update({ txHash })
UpdateHash(p) ==
    /\ procs[p].pc = "updateHash"
    /\ txs' = [txs EXCEPT ![procs[p].txId].txHash = TRUE]
    /\ procs' = [procs EXCEPT ![p] = [@ EXCEPT !.pc = "aiTask"]]
    /\ UNCHANGED <<enforcer, agentTable, spendingCache, agents, now, ops, payments, dropped>>

\* executeTask: executeAITask and return
AiTask(p) ==
    /\ procs[p].pc = "aiTask"
    /\ procs' = [procs EXCEPT ![p] = IdleProc]
    /\ UNCHANGED <<enforcer, agentTable, txs, spendingCache, agents, now, ops, payments, dropped>>

\* ---------------------------------------------------- storage failures
\* prisma.agent.findUnique rejects: validateTransaction has no try/catch, the
\* error leaves it
FindAgentFails(p) ==
    /\ procs[p].pc = "findAgent"
    /\ procs' = [procs EXCEPT ![p] = [@ EXCEPT !.pc = "failed"]]
    /\ UNCHANGED <<enforcer, agentTable, txs, spendingCache, agents, now, ops, payments, dropped>>

\* prisma.transaction.aggregate rejects: the error leaves getDailySpending,
\* the daily limit check and validateTransaction
AggregateFails(p) ==
    /\ procs[p].pc = "aggregate"
    /\ procs' = [procs EXCEPT ![p] = [@ EXCEPT !.pc = "failed"]]
    /\ UNCHANGED <<enforcer, agentTable, txs, spendingCache, agents, now, ops, payments, dropped>>

\* an executeTask that catches the error of the validation and records the
\* request as blocked
ErrorToRoute_RecordsBlocked(p) ==
    /\ procs[p].pc = "failed"
    /\ txs' = IF procs[p].caller = "task"
              THEN Append(txs,
                     [agentId |-> procs[p].request.agentId,
                      service |-> procs[p].request.service,
                      amount |-> procs[p].request.amount,
                      status |-> "blocked", reason |-> <<"Validation failed">>,
                      createdAt |-> now, txHash |-> FALSE])
              ELSE txs
    /\ procs' = [procs EXCEPT ![p] = IdleProc]
    /\ UNCHANGED <<enforcer, agentTable, spendingCache, agents, now, ops, payments, dropped>>

\* the error leaves executeTask (its validateTransaction call is outside the
\* try block) or the /simulate handler and reaches next(error)
ErrorToRoute(p) ==
    /\ procs[p].pc = "failed"
    /\ procs' = [procs EXCEPT ![p] = IdleProc]
    /\ UNCHANGED <<enforcer, agentTable, txs, spendingCache, agents, now, ops, payments, dropped>>

\* ------------------------------------------------ spend cache maintenance
\* invalidateSpendingCache that leaves the entry in the map
invalidateSpendingCache_KeepsEntry(a) ==
    /\ enforcer = "cached"
    /\ spendingCache[a].present
    /\ dropped' = [dropped EXCEPT ![a] = spendingCache[a]]
    /\ UNCHANGED <<enforcer, agentTable, txs, spendingCache, agents, now, procs, ops, payments>>

invalidateSpendingCache(a) ==
    /\ enforcer = "cached"
    /\ spendingCache[a].present
    /\ spendingCache' = [spendingCache EXCEPT ![a] = NoEntry]
    /\ dropped' = [dropped EXCEPT ![a] = spendingCache[a]]
    /\ UNCHANGED <<enforcer, agentTable, txs, agents, now, procs, ops, payments>>

\* the caller of an approved write invalidates its agent's entry before it
\* goes on to the payment (Map.delete, whether or not an entry is present);
\* invalidated records, for the rest of the call, that it has done so
InvalidateAfterWrite(p) ==
    /\ enforcer = "cached"
    /\ procs[p].pc = "pay"
    /\ ~procs[p].invalidated
    /\ LET a == procs[p].request.agentId IN
        /\ spendingCache' = [spendingCache EXCEPT ![a] = NoEntry]
        /\ dropped' = IF spendingCache[a].present
                      THEN [dropped EXCEPT ![a] = spendingCache[a]]
                      ELSE dropped
    /\ procs' = [procs EXCEPT ![p] = [@ EXCEPT !.invalidated = TRUE]]
    /\ UNCHANGED <<enforcer, agentTable, txs, agents, now, ops, payments>>

clearCache ==
    /\ enforcer = "cached"
    /\ \E a \in AgentIds : spendingCache[a].present
    /\ spendingCache' = [a \in AgentIds |-> NoEntry]
    /\ dropped' = [a \in AgentIds |->
          IF spendingCache[a].present THEN spendingCache[a] ELSE dropped[a]]
    /\ UNCHANGED <<enforcer, agentTable, txs, agents, now, procs, ops, payments>>

\* ------------------------------------------------------ AgentOrchestrator
\* startAgent (initialize, POST /api/agents): the has() test, then findUnique
StartAgent(o, a) ==
    /\ ops[o].pc = "idle"
    /\ a \notin agents
    /\ ops' = [ops EXCEPT ![o] = [kind |-> "start", agentId |-> a, pc |-> "find"]]
    /\ UNCHANGED <<enforcer, agentTable, txs, spendingCache, agents, now, procs, payments, dropped>>

\* startAgent without its test of the row's status
OpStartFind_AnyStatus(o) ==
    /\ ops[o].pc = "find"
    /\ LET dbAgent == agentTable[ops[o].agentId] IN
        agents' = IF dbAgent.exists
                  THEN agents \cup {ops[o].agentId}
                  ELSE agents
    /\ ops' = [ops EXCEPT ![o] = IdleOp]
    /\ UNCHANGED <<enforcer, agentTable, txs, spendingCache, now, procs, payments, dropped>>

\* startAgent resumes with the row: throws, or creates, starts and registers
OpStartFind(o) ==
    /\ ops[o].pc = "find"
    /\ LET dbAgent == agentTable[ops[o].agentId] IN
        agents' = IF dbAgent.exists /\ dbAgent.status = "active"
                  THEN agents \cup {ops[o].agentId}
                  ELSE agents
    /\ ops' = [ops EXCEPT ![o] = IdleOp]
    /\ UNCHANGED <<enforcer, agentTable, txs, spendingCache, now, procs, payments, dropped>>

\* PATCH /api/agents/:id with a status: the route's own update, then the
\* handler for that status is called in the background
PatchAgentStatus(o, a, s) ==
    /\ ops[o].pc = "idle"
    /\ agentTable[a].exists
    /\ agentTable' = [agentTable EXCEPT ![a].status = s]
    /\ ops' = [ops EXCEPT ![o] =
          [kind |-> CASE s = "paused" -> "pause"
                      [] s = "active" -> "resume"
                      [] OTHER -> "kill",
           agentId |-> a, pc |-> "update"]]
    /\ UNCHANGED <<enforcer, txs, spendingCache, agents, now, procs, payments, dropped>>

\* POST /api/agents/:id/kill-switch calls killSwitchAgent
KillSwitchRoute(o, a) ==
    /\ ops[o].pc = "idle"
    /\ ops' = [ops EXCEPT ![o] = [kind |-> "kill", agentId |-> a, pc |-> "update"]]
    /\ UNCHANGED <<enforcer, agentTable, txs, spendingCache, agents, now, procs, payments, dropped>>

StatusOfKind(kind) ==
    CASE kind = "pause" -> "paused"
      [] kind = "resume" -> "active"
      [] OTHER -> "frozen"

\* pauseAgent / killSwitchAgent that look the agent up in the running map
\* first and throw, before any write, when it is not running
OpUpdate_RunningTestFirst(o) ==
    /\ ops[o].pc = "update"
    /\ LET a == ops[o].agentId IN
        IF agentTable[a].exists /\ (ops[o].kind = "resume" \/ a \in agents)
        THEN /\ agentTable' = [agentTable EXCEPT ![a].status = StatusOfKind(ops[o].kind)]
             /\ ops' = [ops EXCEPT ![o] =
                   [@ EXCEPT !.pc = IF ops[o].kind = "resume" THEN "start" ELSE "stop"]]
        ELSE /\ agentTable' = agentTable
             /\ ops' = [ops EXCEPT ![o] = IdleOp]
    /\ UNCHANGED <<enforcer, txs, spendingCache, agents, now, procs, payments, dropped>>

\* pauseAgent / resumeAgent / killSwitchAgent: prisma.agent.update runs
\* (it rejects when the row does not exist)
OpUpdate(o) ==
    /\ ops[o].pc = "update"
    /\ LET a == ops[o].agentId IN
        IF agentTable[a].exists
        THEN /\ agentTable' = [agentTable EXCEPT ![a].status = StatusOfKind(ops[o].kind)]
             /\ ops' = [ops EXCEPT ![o] =
                   [@ EXCEPT !.pc = IF ops[o].kind = "resume" THEN "start" ELSE "stop"]]
        ELSE /\ agentTable' = agentTable
             /\ ops' = [ops EXCEPT ![o] = IdleOp]
    /\ UNCHANGED <<enforcer, txs, spendingCache, agents, now, procs, payments, dropped>>

\* pauseAgent / killSwitchAgent resume: emergencyStop, stopAgent
OpStop(o) ==
    /\ ops[o].pc = "stop"
    /\ agents' = agents \ {ops[o].agentId}
    /\ ops' = [ops EXCEPT ![o] = IdleOp]
    /\ UNCHANGED <<enforcer, agentTable, txs, spendingCache, now, procs, payments, dropped>>

\* resumeAgent resumes: startAgent's has() test, then findUnique
OpStartCheck(o) ==
    /\ ops[o].pc = "start"
    /\ ops' = [ops EXCEPT ![o] =
          IF ops[o].agentId \in agents THEN IdleOp ELSE [@ EXCEPT !.pc = "find"]]
    /\ UNCHANGED <<enforcer, agentTable, txs, spendingCache, agents, now, procs, payments, dropped>>

\* ------------------------------------------------------------------- Next
ClockStep == \E d \in TickSteps : Tick(d)

MidnightStep == \E d \in TickSteps : SkipToEvening(d)

TaskStep(P, A, S) ==
    \E p \in P, a \in A, svc \in S, amt \in Amounts : ExecuteTask(p, a, svc, amt)

SimulateStep(P, A, S) ==
    \E p \in P, a \in A, svc \in S, amt \in Amounts : Simulate(p, a, svc, amt)

ProcStep(P) ==
    \E p \in P :
        \/ FindAgent(p)
        \/ Aggregate(p)
        \/ CacheSet(p)
        \/ Respond(p)
        \/ RecordTransaction(p)
        \/ \E ok \in BOOLEAN : SendPayment(p, ok)
        \/ UpdateHash(p)
        \/ AiTask(p)

\* the steps of executeTask calls
TaskProcStep(P) ==
    \E p \in P :
        \/ FindAgent(p)
        \/ Aggregate(p)
        \/ CacheSet(p)
        \/ RecordTransaction(p)
        \/ \E ok \in BOOLEAN : SendPayment(p, ok)
        \/ UpdateHash(p)
        \/ AiTask(p)

OrchestratorCall(A) ==
    \E o \in OpSlots :
        \/ \E a \in A : StartAgent(o, a)
        \/ \E a \in A, s \in {"active", "paused", "frozen"} : PatchAgentStatus(o, a, s)
        \/ \E a \in A : KillSwitchRoute(o, a)

OrchestratorResume ==
    \E o \in OpSlots :
        \/ OpUpdate(o)
        \/ OpStop(o)
        \/ OpStartCheck(o)
        \/ OpStartFind(o)

\* no request is being served
Quiet ==
    /\ \A p \in Procs : procs[p].pc = "idle"
    /\ \A o \in OpSlots : ops[o].pc = "idle"

\* Requests are served one at a time: a call starts when no other call or
\* orchestrator operation is in flight.  Tasks and lifecycle operations are
\* those of agent a1; a2 has no policy and zz does not exist.
Next ==
    \/ ClockStep
    \/ (Quiet /\ TaskStep({"p1"}, {"a1"}, {SvcAi, SvcX}))
    \/ (Quiet /\ SimulateStep({"p1"}, {"a1"}, Services))
    \/ (Quiet /\ SimulateStep({"p1"}, {"a2", "zz"}, {SvcX}))
    \/ ProcStep({"p1"})
    \/ (Quiet /\ OrchestratorCall({"a1"}))
    \/ OrchestratorResume

Spec == Init /\ [][Next]_vars

\* the same, with the cache maintenance operations of PolicyEnforcer called
\* between requests
CacheMaintenance ==
    \/ \E a \in AgentIds : invalidateSpendingCache(a)
    \/ clearCache

NextCache ==
    \/ Next
    \/ (Quiet /\ CacheMaintenance)

SpecCache == Init /\ [][NextCache]_vars

\* two validator calls for agent a1 in flight at the same time: an
\* executeTask (p1) and a /simulate request (p2), with status changes
NextPair ==
    \/ TaskStep({"p1"}, {"a1"}, {SvcAi})
    \/ SimulateStep({"p2"}, {"a1"}, {SvcAi, SvcX})
    \/ ProcStep(Procs)
    \/ (Quiet /\ OrchestratorCall({"a1"}))
    \/ OrchestratorResume

SpecPair == Init /\ [][NextPair]_vars

\* two executeTask calls for agent a1 in flight at the same time, within one
\* lifetime of the cache entries
NextRace ==
    \/ TaskStep(Procs, {"a1"}, {SvcAi})
    \/ TaskProcStep(Procs)
    \/ (Quiet /\ OrchestratorCall({"a1"}))
    \/ OrchestratorResume

SpecRace == Init /\ [][NextRace]_vars

\* two agents with a policy each; p1 serves agent a1 and p2 serves agent a2,
\* interleaved at every await, and a2's cache entry is invalidated or expires
InitTwoAgents ==
    /\ enforcer \in Enforcers
    /\ agentTable = [a \in AgentIds |->
            CASE a = "a1" -> [exists |-> TRUE, status |-> "active", policy |-> PolicyOpenAi]
              [] a = "a2" -> [exists |-> TRUE, status |-> "active", policy |-> PolicyOpen]
              [] OTHER -> NoRow]
    /\ txs = <<>>
    /\ spendingCache = [a \in AgentIds |-> NoEntry]
    /\ agents = {}
    /\ now = 0
    /\ procs = [p \in Procs |-> IdleProc]
    /\ ops = [o \in OpSlots |-> IdleOp]
    /\ payments = {}
    /\ dropped = [a \in AgentIds |-> NoEntry]

NextTwoAgents ==
    \/ ClockStep
    \/ TaskStep({"p1"}, {"a1"}, {SvcAi})
    \/ TaskStep({"p2"}, {"a2"}, {SvcAi})
    \/ TaskProcStep(Procs)
    \/ invalidateSpendingCache("a2")
    \/ (Quiet /\ \E o \in OpSlots, a \in {"a1", "a2"} : StartAgent(o, a))
    \/ \E o \in OpSlots : OpStartFind(o)

SpecTwoAgents == InitTwoAgents /\ [][NextTwoAgents]_vars

\* no executeTask call is in flight
NoTaskInFlight == \A p \in Procs : procs[p].caller # "task"

\* /simulate requests for agent a1 that overlap each other but no
\* executeTask: the transaction store does not change while any of them is
\* being served
NextReadOnly ==
    \/ ClockStep
    \/ (Quiet /\ TaskStep({"p1"}, {"a1"}, {SvcAi}))
    \/ (NoTaskInFlight /\ SimulateStep(Procs, {"a1"}, {SvcAi}))
    \/ ProcStep(Procs)
    \/ (Quiet /\ \E o \in OpSlots : StartAgent(o, "a1"))
    \/ \E o \in OpSlots : OpStartFind(o)

SpecReadOnly == Init /\ [][NextReadOnly]_vars

FaultStep(P) ==
    \E p \in P :
        \/ FindAgentFails(p)
        \/ AggregateFails(p)
        \/ ErrorToRoute(p)

\* requests for agent a1 served one at a time, with a database whose reads
\* may fail
NextFaults ==
    \/ ClockStep
    \/ (Quiet /\ TaskStep({"p1"}, {"a1"}, {SvcAi}))
    \/ (Quiet /\ SimulateStep({"p1"}, {"a1"}, {SvcAi}))
    \/ ProcStep({"p1"})
    \/ FaultStep({"p1"})
    \/ (Quiet /\ \E o \in OpSlots : StartAgent(o, "a1"))
    \/ \E o \in OpSlots : OpStartFind(o)

SpecFaults == Init /\ [][NextFaults]_vars

\* requests of two agents served one at a time over several days
NextDays ==
    \/ ClockStep
    \/ MidnightStep
    \/ (Quiet /\ TaskStep({"p1"}, {"a1", "a2"}, {SvcAi}))
    \/ TaskProcStep({"p1"})
    \/ (Quiet /\ \E o \in OpSlots, a \in {"a1", "a2"} : StartAgent(o, a))
    \/ \E o \in OpSlots : OpStartFind(o)

SpecDays == InitTwoAgents /\ [][NextDays]_vars

\* executeTask calls of agent a1 with the kill switch activated at any
\* moment, also while a call is in flight
NextKill ==
    \/ TaskStep({"p1"}, {"a1"}, {SvcAi})
    \/ TaskProcStep({"p1"})
    \/ \E o \in OpSlots : StartAgent(o, "a1") \/ KillSwitchRoute(o, "a1")
    \/ \E o \in OpSlots : OpStartFind(o) \/ OpUpdate(o) \/ OpStop(o)

SpecKill == Init /\ [][NextKill]_vars

\* executeTask calls (p1) that invalidate after their approved write, with
\* /simulate requests (p2) for the same agent in flight at the same time
NextInvalidate ==
    \/ TaskStep({"p1"}, {"a1"}, {SvcAi})
    \/ SimulateStep({"p2"}, {"a1"}, {SvcAi})
    \/ ProcStep(Procs)
    \/ \E p \in Procs : InvalidateAfterWrite(p)
    \/ (Quiet /\ \E o \in OpSlots : StartAgent(o, "a1"))
    \/ \E o \in OpSlots : OpStartFind(o)

SpecInvalidate == Init /\ [][NextInvalidate]_vars

\* two orchestrator operations on agent a1 in flight at the same time
\* (initialize and a route, or two routes)
InitOverlap ==
    /\ enforcer \in Enforcers
    /\ \E status \in {"active", "paused"} :
        agentTable = [a \in AgentIds |->
            CASE a = "a1" -> [exists |-> TRUE, status |-> status, policy |-> PolicyOpenAi]
              [] a = "a2" -> [exists |-> TRUE, status |-> "active", policy |-> NullPolicy]
              [] OTHER -> NoRow]
    /\ txs = <<>>
    /\ spendingCache = [a \in AgentIds |-> NoEntry]
    /\ agents = {}
    /\ now = 0
    /\ procs = [p \in Procs |-> IdleProc]
    /\ ops = [o \in OverlapSlots |-> IdleOp]
    /\ payments = {}
    /\ dropped = [a \in AgentIds |-> NoEntry]

NextOverlap ==
    \E o \in OverlapSlots :
        \/ \E a \in {"a1", "zz"} : StartAgent(o, a)
        \/ \E s \in {"active", "paused", "frozen"} : PatchAgentStatus(o, "a1", s)
        \/ KillSwitchRoute(o, "a1")
        \/ OpUpdate(o)
        \/ OpStop(o)
        \/ OpStartCheck(o)
        \/ OpStartFind(o)

SpecOverlap == InitOverlap /\ [][NextOverlap]_vars

\* ============================================================ properties
\* the checks of a finished validation, recomputed one by one from the
\* agent row, the request and the daily spend that the call has read
CheckPasses(p, k) ==
    LET agent == procs[p].agent
        req == procs[p].request
    IN  CASE k = 1 -> agent.status = "active"
          [] k = 2 -> IF enforcer = "cached"
                      THEN checkWhitelist(req.service, agent.policy.whitelist)
                      ELSE checkWhitelistEager(req.service, agent.policy.whitelist)
          [] k = 3 -> req.amount <= agent.policy.perTxLimit
          [] OTHER -> procs[p].spentToday + req.amount <= agent.policy.dailyLimit

FlagOf(p, k) ==
    LET f == procs[p].validation.policyChecks
    IN  CASE k = 1 -> f.agentStatusCheck
          [] k = 2 -> f.whitelistCheck
          [] k = 3 -> f.perTxLimitCheck
          [] OTHER -> f.dailyLimitCheck

ReasonOfCheck(p, k) ==
    LET agent == procs[p].agent
        req == procs[p].request
    IN  CASE k = 1 -> <<"Agent is ", agent.status>>
          [] k = 2 -> <<"Service \"", req.service, "\" is not whitelisted">>
          [] k = 3 -> <<"Amount $", req.amount,
                        " exceeds per-transaction limit of $", agent.policy.perTxLimit>>
          [] OTHER -> <<"Transaction would exceed daily limit of $",
                        agent.policy.dailyLimit>>

\* a validation that got past the agent and policy lookups has returned
Validated(p) ==
    /\ procs[p].pc = "validated"
    /\ procs[p].agent.exists
    /\ procs[p].agent.policy.present

\* k is the first check, in the fixed order, that fails
FirstFailing(p, k) ==
    /\ ~CheckPasses(p, k)
    /\ \A j \in 1..(k - 1) : CheckPasses(p, j)

ApprovedToday(a) == getDailySpending(txs, a, StartOfDay(now))

\* C1: with tasks run one at a time, the amounts of an agent's transactions
\* recorded as approved since the start of the day never sum to more than
\* the agent's dailyLimit.
C1_DailyLimitNeverExceeded ==
    \A a \in AgentIds :
        agentTable[a].policy.present =>
            ApprovedToday(a) <= agentTable[a].policy.dailyLimit

\* C2: the step of executeTask that writes a transaction with status
\* approved also invalidates the agent's spend cache entry, so the entry is
\* absent when executeTask moves on to the payment.
C2_InvalidateAfterApprovedWrite ==
    [][\A p \in Procs :
          (procs[p].pc = "validated" /\ procs'[p].pc = "pay")
              => ~spendingCache'[procs[p].request.agentId].present]_vars

\* C3: the reason of a blocked validation names the first check, in the
\* order status, whitelist, per-transaction limit, daily limit, that fails,
\* whatever the later checks would say.
C3_ReasonNamesFirstFailingCheck ==
    \A p \in Procs : \A k \in 1..4 :
        (Validated(p) /\ FirstFailing(p, k))
            => /\ ~procs[p].validation.approved
               /\ procs[p].validation.reason = ReasonOfCheck(p, k)

\* a request that fails the whitelist and the per-transaction limit has
\* been reported as not whitelisted
C3_Witness ==
    \E p \in Procs :
        /\ Validated(p)
        /\ CheckPasses(p, 1) /\ ~CheckPasses(p, 2) /\ ~CheckPasses(p, 3)
        /\ procs[p].validation.reason = ReasonOfCheck(p, 2)

\* C4: when check k is the first to fail, the flag of every later check is
\* false in the result, also when that check would have passed.
C4_LaterFlagsFalse ==
    \A p \in Procs : \A k \in 1..4 :
        (Validated(p) /\ FirstFailing(p, k))
            => \A j \in (k + 1)..4 : ~FlagOf(p, j)

\* C5: approved is true exactly when the four flags are true, and then the
\* reason is "All policy checks passed".
C5_ApprovedIffAllFlags ==
    \A p \in Procs :
        procs[p].pc = "validated" =>
            /\ procs[p].validation.approved <=> (\A k \in 1..4 : FlagOf(p, k))
            /\ procs[p].validation.approved
                  => procs[p].validation.reason = <<"All policy checks passed">>
            /\ ~procs[p].validation.approved
                  => procs[p].validation.reason # <<"All policy checks passed">>

C5_Witness ==
    \E p \in Procs :
        /\ procs[p].pc = "validated"
        /\ procs[p].validation.approved
        /\ \A k \in 1..4 : FlagOf(p, k) /\ CheckPasses(p, k)

C8_MissingAgentOrPolicy ==
    \A p \in Procs :
        procs[p].pc = "validated" =>
            /\ ~procs[p].agent.exists =>
                  procs[p].validation =
                      [approved |-> FALSE, reason |-> <<"Agent not found">>,
                       policyChecks |-> [agentStatusCheck |-> FALSE,
                          whitelistCheck |-> FALSE, perTxLimitCheck |-> FALSE,
                          dailyLimitCheck |-> FALSE]]
            /\ (procs[p].agent.exists /\ ~procs[p].agent.policy.present) =>
                  procs[p].validation =
                      [approved |-> FALSE,
                       reason |-> <<"No policy configured for agent">>,
                       policyChecks |-> [agentStatusCheck |-> FALSE,
                          whitelistCheck |-> FALSE, perTxLimitCheck |-> FALSE,
                          dailyLimitCheck |-> FALSE]]

\* the lookup leaves no call without a result: a call for a missing agent
\* or policy is answered in the step that reads the row
C8_Witness ==
    \E p \in Procs :
        /\ procs[p].pc = "validated"
        /\ procs[p].agent.exists /\ ~procs[p].agent.policy.present
        /\ procs[p].agent.status = "active"
        /\ procs[p].validation.reason = <<"No policy configured for agent">>

\* C7: two validations that read the same non-active status return the
\* same result, blocked with reason "Agent is {status}", whatever their
\* service and amount and whatever the policy and the spend.
C7_StatusAloneDecides ==
    \A p, q \in Procs :
        (/\ Validated(p) /\ Validated(q)
         /\ procs[p].agent.status # "active"
         /\ procs[p].agent.status = procs[q].agent.status)
            => /\ procs[p].validation = procs[q].validation
               /\ ~procs[p].validation.approved
               /\ procs[p].validation.reason = <<"Agent is ", procs[p].agent.status>>

\* C9: a daily-spend read answers from the agent's cache entry exactly when
\* the entry exists and is younger than the TTL; otherwise it aggregates the
\* store, writes the sum with the current time as the agent's entry, and
\* answers with that sum.
C9_CachedReadOrFreshAggregation ==
    [][\A p \in Procs :
          LET a == procs[p].request.agentId
              entry == spendingCache[a]
              young == entry.present /\ now - entry.timestamp < SPENDING_CACHE_TTL
          IN
          /\ (procs[p].pc = "findAgent" /\ procs'[p].pc = "validated"
                  /\ procs'[p].cacheHit)
                => /\ young
                   /\ procs'[p].spentToday = entry.amount
                   /\ spendingCache' = spendingCache
          /\ (procs[p].pc = "findAgent" /\ procs'[p].pc = "aggregate"
                  /\ enforcer = "cached")
                => ~young
          /\ (procs[p].pc = "aggregate" /\ procs'[p].pc = "cacheSet")
                => procs'[p].spentToday = getDailySpending(txs, a, procs[p].today)
          /\ (procs[p].pc = "cacheSet" /\ procs'[p].pc = "validated")
                => /\ spendingCache'[a] =
                        [present |-> TRUE, amount |-> procs[p].spentToday,
                         timestamp |-> now]
                   /\ procs'[p].spentToday = procs[p].spentToday
                   /\ \A b \in AgentIds \ {a} : spendingCache'[b] = spendingCache[b]]_vars

\* a read found an entry aged exactly TTL and went to the store
C9_Witness ==
    \E p \in Procs :
        /\ enforcer = "cached"
        /\ procs[p].pc = "aggregate"
        /\ spendingCache[procs[p].request.agentId].present
        /\ now - spendingCache[procs[p].request.agentId].timestamp = SPENDING_CACHE_TTL

\* C10: after invalidate(agentId) the next daily-spend read for the agent is
\* no cache hit: it aggregates the transaction store, also when the dropped
\* entry was younger than the TTL.
C10_ReadAfterInvalidateAggregates ==
    [][\A p \in Procs :
          LET a == procs[p].request.agentId IN
          /\ (procs[p].pc = "findAgent" /\ a \in AgentIds /\ dropped[a].present)
                => ~(procs'[p].pc = "validated" /\ procs'[p].cacheHit)
          /\ (procs[p].pc = "aggregate" /\ procs'[p].pc # "aggregate")
                => procs'[p].spentToday = getDailySpending(txs, a, procs[p].today)]_vars

\* after an invalidation, and within the TTL of the dropped entry, a read
\* has aggregated a sum that differs from the dropped amount
C10_Witness ==
    \E p \in Procs :
        LET a == procs[p].request.agentId IN
        /\ procs[p].pc = "cacheSet"
        /\ dropped[a].present
        /\ now - dropped[a].timestamp < SPENDING_CACHE_TTL
        /\ procs[p].spentToday # dropped[a].amount
        /\ ~spendingCache[a].present

\* C11: nothing serializes two overlapping validations of one agent: while
\* one call is anywhere between its agent lookup and the write of its
\* transaction row, every step of another call for the same agent can be
\* taken (no lock in the validator, the cache or the task executor), so both
\* can be approved on the same daily spend read.
C11_NoSerialization ==
    \A p \in Procs :
        /\ procs[p].pc = "findAgent" => ENABLED FindAgent(p)
        /\ procs[p].pc = "aggregate" => ENABLED Aggregate(p)
        /\ procs[p].pc = "cacheSet" => ENABLED CacheSet(p)
        /\ (procs[p].pc = "validated" /\ procs[p].caller = "task")
              => ENABLED RecordTransaction(p)

\* two overlapping calls, both approved on a fresh read of the same daily
\* spend, whose amounts together exceed the daily limit
C11_Witness ==
    \E p, q \in Procs :
        /\ p # q
        /\ procs[p].pc = "validated" /\ procs[q].pc = "validated"
        /\ procs[p].caller = "task" /\ procs[q].caller = "task"
        /\ procs[p].request.agentId = procs[q].request.agentId
        /\ ~procs[p].cacheHit /\ ~procs[q].cacheHit
        /\ procs[p].validation.approved /\ procs[q].validation.approved
        /\ procs[p].spentToday = ApprovedToday(procs[p].request.agentId)
        /\ procs[q].spentToday = procs[p].spentToday
        /\ procs[p].spentToday + procs[p].request.amount + procs[q].request.amount
              > procs[p].agent.policy.dailyLimit

\* the transaction rows of one agent
OwnRows(a) == SelectSeq(txs, LAMBDA row : row.agentId = a)

\* C12: validations of agent a1 are isolated from agent a2: a1's cache entry
\* changes only when a call for a1 stores the spend it read, a call for a1
\* looks up a1's row, reads a1's cache entry on a hit and sums only a1's
\* transaction rows on a miss, whatever a2's calls, records, misses and
\* invalidations do in between.
C12_AgentsIsolated ==
    [][ /\ spendingCache'["a1"] # spendingCache["a1"]
            => \E p \in Procs : /\ procs[p].request.agentId = "a1"
                                /\ procs[p].pc = "cacheSet"
                                /\ procs'[p].pc = "validated"
        /\ \A p \in Procs :
            (procs[p].request.agentId = "a1" /\ procs'[p] # procs[p]) =>
              /\ procs[p].pc = "findAgent"
                    => /\ procs'[p].agent = agentTable["a1"]
                       /\ procs'[p].cacheHit
                             => procs'[p].spentToday = spendingCache["a1"].amount
              /\ procs[p].pc = "aggregate"
                    => procs'[p].spentToday =
                          getDailySpending(OwnRows("a1"), "a1", procs[p].today)
              /\ procs[p].pc = "cacheSet"
                    => /\ spendingCache'["a1"].amount = procs[p].spentToday
                       /\ spendingCache'["a2"] = spendingCache["a2"]
      ]_vars

\* a call for a1 has read a1's spend (none) while a2's call, still in flight,
\* has an approved transaction recorded today
C12_Witness ==
    \E p \in Procs :
        /\ procs[p].request.agentId = "a1"
        /\ procs[p].pc \in {"cacheSet", "validated"}
        /\ ~procs[p].cacheHit
        /\ procs[p].agent.exists
        /\ procs[p].spentToday = 0
        /\ ApprovedToday("a2") > 0
        /\ \E q \in Procs : procs[q].request.agentId = "a2" /\ procs[q].pc = "pay"

\* C13: no step of validateTransaction (agent lookup, aggregation query,
\* cache update) creates or changes a transaction row, an agent row, a policy,
\* a payment or the set of running agents; the only state it changes is the
\* spend-cache entry of the agent it was called for, and only after a cache
\* miss, when it stores the spend it has just read.
C13_ValidationFrame ==
    [][ \A p \in Procs :
          (procs[p].pc \in {"findAgent", "aggregate", "cacheSet"} /\ procs'[p] # procs[p]) =>
            LET a == procs[p].request.agentId IN
            /\ txs' = txs
            /\ agentTable' = agentTable
            /\ agents' = agents
            /\ payments' = payments
            /\ \A b \in AgentIds \ {a} : spendingCache'[b] = spendingCache[b]
            /\ spendingCache'[a] # spendingCache[a] =>
                  /\ procs[p].pc = "cacheSet"
                  /\ ~procs[p].cacheHit
                  /\ ~CacheValid(spendingCache[a], now)
                  /\ spendingCache'[a] = [present |-> TRUE,
                                          amount |-> procs[p].spentToday,
                                          timestamp |-> now]
      ]_vars

\* a validation that missed the cache has replaced an expired entry of its
\* agent while approved transactions are in the store
C13_Witness ==
    \E p \in Procs :
        /\ procs[p].pc = "validated"
        /\ ~procs[p].cacheHit
        /\ procs[p].spentToday > 0
        /\ spendingCache[procs[p].request.agentId] =
              [present |-> TRUE, amount |-> procs[p].spentToday, timestamp |-> now]
        /\ Len(txs) > 0

\* C14: two validateTransaction calls that see the same agent status, the
\* same policy, the same approved transactions of today in the store and the
\* same request return the same ValidationResult, whatever was served before
\* them.  (The store is the same for any two calls in flight together: no
\* transaction is written while a /simulate request is being served.)
C14_SameInputsSameResult ==
    \A p, q \in Procs :
        (/\ Validated(p) /\ Validated(q)
         /\ procs[p].agent = procs[q].agent
         /\ procs[p].request = procs[q].request)
            => procs[p].validation = procs[q].validation

\* C15: a validation that reaches the daily limit check passes it exactly when
\* the daily spend it read (from the cache or from the aggregation) plus the
\* requested amount is at most dailyLimit, a sum equal to the limit included;
\* above the limit it is blocked with the reason "Transaction would exceed
\* daily limit of $<dailyLimit>".
C15_DailyLimitInclusive ==
    \A p \in Procs :
        (Validated(p) /\ \A k \in 1..3 : CheckPasses(p, k)) =>
            LET limit == procs[p].agent.policy.dailyLimit
                total == procs[p].spentToday + procs[p].request.amount
            IN  /\ FlagOf(p, 4) = (total <= limit)
                /\ procs[p].validation.approved = (total <= limit)
                /\ total > limit =>
                      procs[p].validation.reason =
                          <<"Transaction would exceed daily limit of $", limit>>

\* an approved validation whose amount brings a non-zero spend exactly to
\* the daily limit
C15_Witness ==
    \E p \in Procs :
        /\ Validated(p)
        /\ procs[p].validation.approved
        /\ procs[p].spentToday > 0
        /\ procs[p].request.amount > 0
        /\ procs[p].spentToday + procs[p].request.amount
              = procs[p].agent.policy.dailyLimit

EqualsIgnoringCase(s, t) ==
    /\ Len(s) = Len(t)
    /\ \A i \in 1..Len(s) : ToLowerChar(s[i]) = ToLowerChar(t[i])

\* t occurs in s, up to the case of the letters
ContainsIgnoringCase(s, t) ==
    \E off \in 0..(Len(s) - Len(t)) :
        \A i \in 1..Len(t) : ToLowerChar(s[off + i]) = ToLowerChar(t[i])

\* C17: the whitelist check of a validation passes for every service when the
\* whitelist is empty; otherwise it passes exactly when some entry w equals
\* the service, is contained in it or contains it, ignoring case.
C17_WhitelistIgnoresCase ==
    \A p \in Procs :
        (Validated(p) /\ CheckPasses(p, 1)) =>
            LET service == procs[p].request.service
                whitelist == procs[p].agent.policy.whitelist
            IN  FlagOf(p, 2) =
                  (\/ whitelist = <<>>
                   \/ \E k \in 1..Len(whitelist) :
                        \/ EqualsIgnoringCase(service, whitelist[k])
                        \/ ContainsIgnoringCase(service, whitelist[k])
                        \/ ContainsIgnoringCase(whitelist[k], service))

\* C18: for the whitelist and the service of any validation, the SDK helper
\* isServiceAllowed gives the answer of the validator's whitelist check: true
\* for an empty whitelist, and otherwise a case-insensitive match.
C18_SdkAgreesWithValidator ==
    \A p \in Procs :
        Validated(p) =>
            isServiceAllowed(procs[p].request.service, procs[p].agent.policy.whitelist)
                = checkWhitelist(procs[p].request.service, procs[p].agent.policy.whitelist)

\* C19: when the agent lookup or the aggregation read fails, the validation
\* ends with the error: it stores no spend in the cache (in particular not 0),
\* produces no ValidationResult, and the error goes on to the caller of
\* executeTask or /simulate without a transaction being recorded or paid.
C19_StorageErrorPropagates ==
    [][ \A p \in Procs :
          /\ (procs[p].pc # "failed" /\ procs'[p].pc = "failed") =>
                /\ procs[p].pc \in {"findAgent", "aggregate"}
                /\ procs'[p].validation = NoResult
                /\ spendingCache' = spendingCache
                /\ txs' = txs
          /\ (procs[p].pc = "failed" /\ procs'[p] # procs[p]) =>
                /\ procs'[p] = IdleProc
                /\ spendingCache' = spendingCache
                /\ txs' = txs
                /\ payments' = payments
      ]_vars

\* the aggregation read of an executeTask call has failed: the call holds
\* the agent it looked up, no result, and its cache entry was not written
C19_Witness ==
    \E p \in Procs :
        /\ procs[p].pc = "failed"
        /\ procs[p].caller = "task"
        /\ procs[p].agent.exists
        /\ procs[p].validation = NoResult
        /\ Len(txs) > 0
        /\ ~CacheValid(spendingCache[procs[p].request.agentId], now)

\* C20: the daily limit check comes last: a validation issues the spend
\* aggregation query (and goes on to the cache update) only when the status,
\* whitelist and per-transaction checks have passed; a request rejected by
\* one of them causes no aggregation query and leaves the cache alone.
C20_AggregationOnlyAfterFastChecks ==
    \A p \in Procs :
        procs[p].pc \in {"aggregate", "cacheSet"} =>
            /\ procs[p].agent.exists
            /\ procs[p].agent.policy.present
            /\ \A k \in 1..3 : CheckPasses(p, k)

\* the rows that count toward agent a's spend of the day starting at dayStart
CountedRows(a, dayStart) ==
    {i \in 1..Len(txs) : /\ txs[i].agentId = a
                         /\ txs[i].status = "approved"
                         /\ txs[i].createdAt >= dayStart}

RECURSIVE SumAmounts(_)
SumAmounts(S) ==
    IF S = {} THEN 0
    ELSE LET i == CHOOSE j \in S : TRUE
         IN  txs[i].amount + SumAmounts(S \ {i})

\* C21: a fresh aggregation for an agent returns the sum of the amounts of
\* exactly that agent's approved transactions created since the start of the
\* day of the call (0 when there are none): blocked rows, rows of other
\* agents and rows of earlier days do not count.
C21_FreshAggregation ==
    [][ \A p \in Procs :
          /\ (procs[p].pc = "findAgent" /\ procs'[p].pc = "aggregate")
                => procs'[p].today = now - (now % DayMs)
          /\ (procs[p].pc = "aggregate" /\ procs'[p].pc \in {"cacheSet", "validated"})
                => procs'[p].spentToday =
                      SumAmounts(CountedRows(procs[p].request.agentId, procs[p].today))
      ]_vars

\* an aggregation for a1 has returned 0 although the store holds an approved
\* row of a1, created on an earlier day
C21_Witness ==
    \E p \in Procs :
        /\ procs[p].pc \in {"cacheSet", "validated"}
        /\ procs[p].request.agentId = "a1"
        /\ \A k \in 1..3 : CheckPasses(p, k)
        /\ Validated(p) => ~procs[p].cacheHit
        /\ procs[p].agent.exists
        /\ procs[p].spentToday = 0
        /\ \E i \in 1..Len(txs) :
              /\ txs[i].agentId = "a1" /\ txs[i].status = "approved"
              /\ txs[i].amount > 0 /\ txs[i].createdAt < procs[p].today

\* the transaction row that persists the outcome held by call p
OutcomeRow(p) ==
    [agentId |-> procs[p].request.agentId,
     service |-> procs[p].request.service,
     amount |-> procs[p].request.amount,
     status |-> IF procs[p].validation.approved THEN "approved" ELSE "blocked",
     reason |-> procs[p].validation.reason,
     createdAt |-> now, txHash |-> FALSE]

C23_PaymentOnlyAfterApprovedRecord ==
    [][ /\ payments' # payments =>
              \E p \in Procs :
                  /\ procs[p].pc = "pay"
                  /\ procs[p].validation.approved
                  /\ procs[p].txId \in 1..Len(txs)
                  /\ txs[procs[p].txId].status = "approved"
                  /\ txs[procs[p].txId].agentId = procs[p].request.agentId
                  /\ txs[procs[p].txId].service = procs[p].request.service
                  /\ txs[procs[p].txId].amount = procs[p].request.amount
                  /\ payments' = payments \cup {procs[p].txId}
        /\ \A id \in payments' : id \in 1..Len(txs') /\ txs'[id].status = "approved"
      ]_vars

\* a payment has been sent for an approved row while the store also holds a
\* blocked row, for which none was sent
C23_Witness ==
    /\ payments # {}
    /\ \E j \in 1..Len(txs) : txs[j].status = "blocked" /\ j \notin payments
    /\ \A id \in payments : txs[id].status = "approved"

\* C24: the validator only ever runs on a well-formed request: a call that is
\* in validateTransaction, or has its result, carries a non-empty agentId, a
\* non-empty service and an amount greater than 0, the calling layer having
\* rejected everything else.
C24_ValidatorCalledWellFormed ==
    \A p \in Procs :
        procs[p].pc \in {"findAgent", "aggregate", "cacheSet", "validated"} =>
            /\ procs[p].request.agentId # ""
            /\ procs[p].request.service # <<>>
            /\ procs[p].request.amount > 0

\* C25: once killSwitchAgent has completed for a running agent (its status
\* is frozen, it has left the running map and the operation has returned),
\* no payment is sent for that agent any more, an executeTask call that was
\* in flight when the kill switch was activated included.
C25_NoPaymentAfterKillSwitch ==
    [][ \A p \in Procs :
          (procs[p].pc = "pay" /\ payments' # payments /\ procs'[p] # procs[p]) =>
              ~(/\ agentTable[procs[p].request.agentId].status = "frozen"
                /\ procs[p].request.agentId \notin agents
                /\ \A o \in OpSlots : ops[o].pc = "idle")
      ]_vars

\* C26: once a call has recorded its approved transaction and invalidated
\* its agent's cache entry, no daily-spend read for that agent is answered
\* from a cached amount that leaves that transaction out, also when another
\* validation was between its aggregation read and its cache write during
\* the invalidation.
C26_InvalidateEffective ==
    [][ \A p, q \in Procs :
          (/\ procs[p].invalidated
           /\ procs[q].request.agentId = procs[p].request.agentId
           /\ procs[q].pc = "findAgent"
           /\ procs'[q].pc = "validated"
           /\ procs'[q].cacheHit)
              => procs'[q].spentToday >=
                    SumAmounts(CountedRows(procs[p].request.agentId, StartOfDay(now))
                               \cap 1..procs[p].txId)
      ]_vars

\* C27: startAgent creates and starts an AIAgent instance only for an agent
\* that is not in the running map at that moment, so no second instance is
\* ever started for an id, overlapping startAgent calls included; and a
\* startAgent that finds no row, or a row that is not active, leaves the
\* running map as it was.
C27_OneInstancePerAgent ==
    [][ \A o \in DOMAIN ops :
          (ops[o].pc = "find" /\ ops'[o].pc = "idle") =>
              LET a == ops[o].agentId IN
              IF agentTable[a].exists /\ agentTable[a].status = "active"
              THEN a \notin agents /\ agents' = agents \cup {a}
              ELSE agents' = agents
      ]_vars

C29_StatusWrittenFirst ==
    [][ \A o \in DOMAIN ops :
          LET a == ops[o].agentId
              written == IF ops[o].kind = "kill" THEN "frozen" ELSE "paused"
          IN  (ops[o].kind \in {"kill", "pause"} /\ ops'[o] # ops[o]) =>
                /\ (ops[o].pc = "update" /\ agentTable[a].exists) =>
                      /\ agentTable'[a].status = written
                      /\ agents' = agents
                      /\ ops'[o].pc = "stop"
                /\ ops[o].pc = "stop" =>
                      /\ ops'[o].pc = "idle"
                      /\ agentTable' = agentTable
                      /\ agentTable'[a].status = written
                      /\ a \notin agents'
      ]_vars

\* killSwitchAgent has written frozen for an agent that is not running and
\* is about to fail in stopAgent
C29_Witness ==
    \E o \in DOMAIN ops :
        /\ ops[o].kind = "kill"
        /\ ops[o].pc = "stop"
        /\ ops[o].agentId \notin agents
        /\ agentTable[ops[o].agentId].status = "frozen"

\* C30: when sendPayment throws after an approval, executeTask ends without
\* touching the transaction record: it stays approved, without txHash, and
\* its amount is still part of the agent's spending of the day.
C30_FailedPaymentStillCounts ==
    [][ \A p \in Procs :
          (procs[p].pc = "pay" /\ procs'[p].pc = "idle") =>
              LET t == procs[p].txId
                  row == txs'[t]
                  today == StartOfDay(now)
                  without == [txs' EXCEPT ![t].status = "failed"]
              IN  /\ txs' = txs
                  /\ row.status = "approved"
                  /\ ~row.txHash
                  /\ row.createdAt >= today =>
                        getDailySpending(txs', row.agentId, today)
                          = getDailySpending(without, row.agentId, today) + row.amount
      ]_vars

\* the only record is an approved one whose payment failed, and a later
\* request of the same agent was blocked on the daily limit because of it
C30_Witness ==
    /\ Len(txs) = 1
    /\ 1 \in payments
    /\ txs[1].status = "approved"
    /\ ~txs[1].txHash
    /\ \A q \in Procs : procs[q].txId # 1
    /\ \E p \in Procs :
          /\ procs[p].pc = "validated"
          /\ procs[p].request.agentId = txs[1].agentId
          /\ procs[p].spentToday >= txs[1].amount
          /\ ~procs[p].validation.approved
          /\ ~procs[p].validation.policyChecks.dailyLimitCheck

====
